---- MODULE Spec2Model ----
(***************************************************************************)
(* Tree menu: the draw_menu template tag of tree_menu/templatetags/        *)
(* menu_tags.py and MenuItem.get_url of tree_menu/models.py, over a store  *)
(* of MenuItem rows.                                                       *)
(*                                                                         *)
(* A row is a record of the MenuItem columns.  An instance is a row as     *)
(* loaded into Python: the columns plus the state of the `parent` relation *)
(* cache of that object (cached, parent).  Titles are modelled by distinct *)
(* numbers so that an emitted entry identifies the item it was made from.  *)
(***************************************************************************)
EXTENDS Integers, Sequences, FiniteSets, TLC

\* ------------------------------------------------------------------ bounds
MaxItems   == 3     \* ids of MenuItem rows are 1..MaxItems
MaxQueries == 4     \* the round-trip counter of one render stops here
MaxWrites  == 1     \* writes of the admin site during one behaviour

\* ------------------------------------------------------------- data model
None == 0           \* Python None / SQL NULL in an id column (ids start at 1)
NULL == [id |-> None]   \* None where an instance is expected

ItemIds     == 1..MaxItems
OrderValues == {0, 1}
MenuSlugs   == {"main_menu", "footer_menu"}
UrlPool     == <<"/services/", "/services/web/", "/services/web/design/",
                 "/about/", "/contact/", "/services/mobile/">>
UrlValues   == {"", "/services/"}
NameValues  == {"", "home", "service_detail"}
Paths       == {"", "/", "/services"} \cup {UrlPool[i] : i \in ItemIds}

Row(i, m, p, u, n, o) ==
    [id |-> i, menu |-> m, parent_id |-> p, title |-> i,
     url |-> u, named_url |-> n, order |-> o]

\* the named routes of the project and the path each reverses to; a name
\* outside the table, or a route that needs arguments, raises NoReverseMatch
RouteNames == {"home", "about", "services", "contact"}
RoutePath(name) ==
    CASE name = "home"     -> "/"
      [] name = "about"    -> "/about/"
      [] name = "services" -> "/services/"
      [] name = "contact"  -> "/contact/"

\* django.urls.reverse(name) without arguments: the path, or NoReverseMatch
NoReverseMatch == "NoReverseMatch"
reverse(name) == IF name \in RouteNames THEN RoutePath(name) ELSE NoReverseMatch

\* (a get_url that tries the explicit url first)
get_url_explicit_first(self) ==
    IF self.url # "" THEN self.url
    ELSE IF self.named_url # "" /\ reverse(self.named_url) # NoReverseMatch
         THEN reverse(self.named_url)
         ELSE "#"

\* MenuItem.get_url: reverse(named_url) unless it raises, else url, else "#"
get_url(self) ==
    IF self.named_url # "" /\ reverse(self.named_url) # NoReverseMatch
    THEN reverse(self.named_url)
    ELSE IF self.url # "" THEN self.url ELSE "#"

\* ------------------------------------------------------------------ stores
\* (an ordering by id alone)
BeforeById(a, b) == a.id < b.id

\* Meta.ordering = ['order', 'id']
Before(a, b) == a.order < b.order \/ (a.order = b.order /\ a.id < b.id)

RECURSIVE OrderBy(_)
OrderBy(S) ==
    IF S = {} THEN <<>>
    ELSE LET m == CHOOSE x \in S : \A y \in S \ {x} : Before(x, y)
         IN  <<m>> \o OrderBy(S \ {m})

RowOf(store, i) == CHOOSE r \in store : r.id = i
HasRow(store, i) == \E r \in store : r.id = i

\* the object select_related('parent') builds beside a fetched row: the
\* parent's columns, its own parent relation not loaded
Related(row) == row @@ [cached |-> FALSE, parent |-> NULL]

\* one row of the queryset of draw_menu: the columns and the joined parent
Fetched(store, row) ==
    row @@ [cached |-> TRUE,
            parent |-> IF row.parent_id # None /\ HasRow(store, row.parent_id)
                       THEN Related(RowOf(store, row.parent_id))
                       ELSE NULL]

\* MenuItem.objects.filter(menu__slug=menu_slug).select_related('menu', 'parent')
QueryItems(store, slug) ==
    LET rows == OrderBy({r \in store : r.menu = slug})
    IN  [k \in 1..Len(rows) |-> Fetched(store, rows[k])]

\* stores of any parent structure (the admin does not validate the parent:
\* cycles and parents of another menu included), every item with its own URL
TreeStores ==
    { {Row(i, "main_menu", par[i], UrlPool[i], "", ord[i]) : i \in ItemIds} :
        par \in [ItemIds -> {None} \cup ItemIds], ord \in [ItemIds -> OrderValues] }

\* the same with the first item in another menu
CrossStores ==
    { {Row(i, IF i = 1 THEN "footer_menu" ELSE "main_menu", par[i], UrlPool[i], "", 0)
         : i \in ItemIds} :
        par \in [ItemIds -> {None} \cup ItemIds] }

\* flat stores with every combination of url and named_url
UrlStores ==
    { {Row(i, "main_menu", None, u[i], n[i], ord[i]) : i \in ItemIds} :
        u \in [ItemIds -> UrlValues], n \in [ItemIds -> NameValues],
        ord \in [ItemIds -> OrderValues] }

\* stores of any parent structure whose items all have the same URL
SameUrlStores ==
    { {Row(i, "main_menu", par[i], UrlPool[1], "", 0) : i \in ItemIds} :
        par \in [ItemIds -> {None} \cup ItemIds] }

Stores == TreeStores \cup CrossStores \cup UrlStores \cup SameUrlStores

\* ----------------------------------------------------------------- markup
UlOpen(level)       == [tag |-> "ul", level |-> level]
UlClose             == [tag |-> "/ul"]
LiOpen(css_class)   == [tag |-> "li", class |-> css_class]
LiClose             == [tag |-> "/li"]
Anchor(href, title) == [tag |-> "a", href |-> href, text |-> title]
DivHidden           == [tag |-> "div", style |-> "display:none;"]
DivClose            == [tag |-> "/div"]

\* ------------------------------------------------------- pure functions
EmptyDict == [k \in {} |-> <<>>]

\* build_menu_tree
RECURSIVE build_menu_tree_from(_, _, _)
build_menu_tree_from(menu_items_, k, dict) ==
    IF k > Len(menu_items_) THEN dict
    ELSE LET item == menu_items_[k]
             key  == item.parent_id
             d1   == IF key \in DOMAIN dict THEN dict ELSE dict @@ (key :> <<>>)
         IN  build_menu_tree_from(menu_items_, k + 1,
                                  [d1 EXCEPT ![key] = Append(@, item)])

\* (a build_menu_tree that puts each item at the front of its bucket)
RECURSIVE build_menu_tree_front(_, _, _)
build_menu_tree_front(menu_items_, k, dict) ==
    IF k > Len(menu_items_) THEN dict
    ELSE LET item == menu_items_[k]
             key  == item.parent_id
             d1   == IF key \in DOMAIN dict THEN dict ELSE dict @@ (key :> <<>>)
         IN  build_menu_tree_front(menu_items_, k + 1,
                                   [d1 EXCEPT ![key] = <<item>> \o @])

build_menu_tree_prepending(menu_items_) == build_menu_tree_front(menu_items_, 1, EmptyDict)

build_menu_tree(menu_items_) == build_menu_tree_from(menu_items_, 1, EmptyDict)

\* (a scan that keeps the last match)
RECURSIVE find_last_from(_, _, _)
find_last_from(menu_items_, k, path_) ==
    IF k < 1 THEN NULL
    ELSE IF get_url(menu_items_[k]) = path_ THEN menu_items_[k]
    ELSE find_last_from(menu_items_, k - 1, path_)

find_last_item(menu_items_, path_) == find_last_from(menu_items_, Len(menu_items_), path_)

\* find_active_item
RECURSIVE find_active_from(_, _, _)
find_active_from(menu_items_, k, path_) ==
    IF k > Len(menu_items_) THEN NULL
    ELSE IF get_url(menu_items_[k]) = path_ THEN menu_items_[k]
    ELSE find_active_from(menu_items_, k + 1, path_)

find_active_item(menu_items_, path_) == find_active_from(menu_items_, 1, path_)

\* menu_dict.get(parent_id, [])
DictGet(dict, key) == IF key \in DOMAIN dict THEN dict[key] ELSE <<>>

\* (expansion by the ancestor path alone; expansion of everything)
show_path_only(is_in_path, is_child_of_active) == is_in_path
show_always(is_in_path, is_child_of_active) == TRUE

\* (expansion under the children of the active item alone)
show_child_only(is_in_path, is_child_of_active) == is_child_of_active

\* lines 200-206 of render_menu_level: the subtree of one entry
should_show(is_in_path, is_child_of_active) == is_in_path \/ is_child_of_active

Subtree(children_html, show) ==
    IF children_html = <<>> THEN <<>>
    ELSE IF show THEN children_html
    ELSE <<DivHidden>> \o children_html \o <<DivClose>>

\* render_menu_level
RECURSIVE render_menu_level(_, _, _, _, _)
RECURSIVE render_items(_, _, _, _, _, _)
render_items(dict, items, k, active, apath, level) ==
    IF k > Len(items) THEN <<>>
    ELSE LET item == items[k]
             is_active == active # NULL /\ item.id = active.id
             is_in_path == item.id \in apath
             is_child_of_active == active # NULL /\ item.parent_id = active.id
             css_class == IF is_active THEN "active" ELSE ""
             children_html == render_menu_level(dict, item.id, active, apath, level + 1)
         IN  <<LiOpen(css_class), Anchor(get_url(item), item.title)>>
             \o Subtree(children_html, should_show(is_in_path, is_child_of_active))
             \o <<LiClose>>
             \o render_items(dict, items, k + 1, active, apath, level)

\* (every list labelled as the root list)
render_menu_level_unlabelled(dict, parent_id, active, apath, level) ==
    LET items == DictGet(dict, parent_id)
    IN  IF items = <<>> THEN <<>>
        ELSE <<UlOpen(0)>> \o render_items(dict, items, 1, active, apath, 0)
             \o <<UlClose>>

render_menu_level(dict, parent_id, active, apath, level) ==
    LET items == DictGet(dict, parent_id)
    IN  IF items = <<>> THEN <<>>
        ELSE <<UlOpen(level)>> \o render_items(dict, items, 1, active, apath, level)
             \o <<UlClose>>

\* ------------------------------------------------------------------ state
VARIABLES
    db,            \* the MenuItem table: a set of rows
    writes,        \* writes made through the admin site so far
    pc,            \* where the draw_menu call is
    menu_slug,     \* its argument
    current_path,  \* request.path, "" without a request
    menu_items,    \* the evaluated queryset
    menu_dict,
    active_item,
    path,          \* get_active_path's local set
    current,       \* get_active_path's cursor
    active_path,
    html,          \* the markup built, a sequence of tokens
    queries        \* round trips to the database made by this call

vars == <<db, writes, pc, menu_slug, current_path, menu_items, menu_dict,
          active_item, path, current, active_path, html, queries>>

locals == <<menu_slug, current_path, menu_items, menu_dict, active_item,
            path, current, active_path, html, queries>>

NoCall ==
    /\ menu_slug = "" /\ current_path = "" /\ menu_items = <<>>
    /\ menu_dict = EmptyDict /\ active_item = NULL /\ path = {}
    /\ current = NULL /\ active_path = {} /\ html = <<>> /\ queries = 0

Init ==
    /\ db \in Stores
    /\ writes = 0
    /\ pc = "idle"
    /\ NoCall

\* --------------------------------------------------------------- draw_menu
\* (a draw_menu without the early return of lines 55-56)
DrawMenuNoEarlyReturn(slug, req_path) ==
    /\ pc = "idle"
    /\ menu_slug' = slug
    /\ current_path' = req_path
    /\ menu_items' = QueryItems(db, slug)
    /\ queries' = 1
    /\ pc' = "fetched"
    /\ UNCHANGED <<db, writes, menu_dict, active_item, path, current, active_path, html>>

\* lines 44-56: the arguments, the one query (run by `if not menu_items`),
\* and the early return for an empty result
DrawMenu(slug, req_path) ==
    /\ pc = "idle"
    /\ menu_slug' = slug
    /\ current_path' = req_path
    /\ menu_items' = QueryItems(db, slug)
    /\ queries' = 1
    /\ pc' = IF menu_items' = <<>> THEN "done" ELSE "fetched"
    /\ UNCHANGED <<db, writes, menu_dict, active_item, path, current, active_path, html>>

\* lines 60-64 up to the call of get_active_path (its lines 132-133)
Prepare ==
    /\ pc = "fetched"
    /\ menu_dict' = build_menu_tree(menu_items)
    /\ active_item' = find_active_item(menu_items, current_path)
    /\ IF active_item' # NULL
       THEN /\ path' = {}
            /\ current' = active_item'
            /\ pc' = "walk"
            /\ UNCHANGED active_path
       ELSE /\ active_path' = {}
            /\ pc' = "render"
            /\ UNCHANGED <<path, current>>
    /\ UNCHANGED <<db, writes, menu_slug, current_path, menu_items, html, queries>>

\* current.parent on an instance: the cached object, or None for a NULL
\* column, or a query for the row (MenuItem.DoesNotExist if it is gone)
NeedsQuery(obj) == ~obj.cached /\ obj.parent_id # None

\* (a walk that records the parent's id instead of the visited item's)
path_add_parent(path_, obj) == path_ \cup ({obj.parent_id} \ {None})

\* line 135
path_add(path_, obj) == path_ \cup {obj.id}

\* lines 134-136, one turn of the loop
WalkStep ==
    /\ pc = "walk"
    /\ current # NULL
    /\ NeedsQuery(current) => queries < MaxQueries
    /\ path' = path_add(path, current)
    /\ IF ~NeedsQuery(current)
       THEN /\ current' = IF current.cached THEN current.parent ELSE NULL
            /\ UNCHANGED <<queries, pc>>
       ELSE /\ queries' = queries + 1
            /\ IF HasRow(db, current.parent_id)
               THEN /\ current' = Related(RowOf(db, current.parent_id))
                    /\ UNCHANGED pc
               ELSE /\ pc' = "raised"
                    /\ UNCHANGED current
    /\ UNCHANGED <<db, writes, menu_slug, current_path, menu_items, menu_dict,
                   active_item, active_path, html>>

\* line 137 and the assignment of line 64
WalkReturn ==
    /\ pc = "walk"
    /\ current = NULL
    /\ active_path' = path
    /\ pc' = "render"
    /\ UNCHANGED <<db, writes, menu_slug, current_path, menu_items, menu_dict,
                   active_item, path, current, html, queries>>

\* line 67
Render ==
    /\ pc = "render"
    /\ html' = render_menu_level(menu_dict, None, active_item, active_path, 0)
    /\ pc' = "done"
    /\ UNCHANGED <<db, writes, menu_slug, current_path, menu_items, menu_dict,
                   active_item, path, current, active_path, queries>>

\* (a return that keeps the evaluated queryset for the next call)
ReturnKeepingItems ==
    /\ pc \in {"done", "raised"}
    /\ pc' = "idle"
    /\ menu_slug' = "" /\ current_path' = ""
    /\ menu_dict' = EmptyDict /\ active_item' = NULL /\ path' = {}
    /\ current' = NULL /\ active_path' = {} /\ html' = <<>> /\ queries' = 0
    /\ UNCHANGED <<db, writes, menu_items>>

\* line 69 (or the exception leaving draw_menu): the locals are gone
Return ==
    /\ pc \in {"done", "raised"}
    /\ pc' = "idle"
    /\ menu_slug' = "" /\ current_path' = "" /\ menu_items' = <<>>
    /\ menu_dict' = EmptyDict /\ active_item' = NULL /\ path' = {}
    /\ current' = NULL /\ active_path' = {} /\ html' = <<>> /\ queries' = 0
    /\ UNCHANGED <<db, writes>>

Next ==
    \/ \E slug \in MenuSlugs, req_path \in Paths : DrawMenu(slug, req_path)
    \/ Prepare
    \/ WalkStep
    \/ WalkReturn
    \/ Render
    \/ Return

Spec == Init /\ [][Next]_vars

\* -------------------------------------------------------------- admin site
\* ids of S and of the parents of the rows of S
Up(store, S) == S \cup ({r.parent_id : r \in {x \in store : x.id \in S}} \ {None})

RECURSIVE Closure(_, _, _)
Closure(store, S, n) == IF n = 0 THEN S ELSE Closure(store, Up(store, S), n - 1)

\* the id and the ids of all rows above it
AncestorsOrSelf(store, i) == Closure(store, {i}, MaxItems)

\* MenuItemAdmin: a saved change of parent and order; no validation of parent
AdminSave(i, p, o) ==
    /\ writes < MaxWrites
    /\ HasRow(db, i)
    /\ p = None \/ HasRow(db, p)
    /\ LET r == RowOf(db, i)
       IN  /\ <<p, o>> # <<r.parent_id, r.order>>
           /\ db' = (db \ {r}) \cup {[r EXCEPT !.parent_id = p, !.order = o]}
    /\ writes' = writes + 1
    /\ UNCHANGED <<pc, locals>>

\* deleting a row: on_delete=CASCADE removes every row below it
AdminDelete(i) ==
    /\ writes < MaxWrites
    /\ HasRow(db, i)
    /\ db' = {r \in db : i \notin AncestorsOrSelf(db, r.id)}
    /\ writes' = writes + 1
    /\ UNCHANGED <<pc, locals>>

\* forests of one menu, as the demo command and the tests build them
Acyclic(store) ==
    \A r \in store : r.parent_id # None =>
        r.id \notin AncestorsOrSelf(store, r.parent_id)

SameMenuParents(store) ==
    \A r \in store : r.parent_id # None =>
        /\ HasRow(store, r.parent_id)
        /\ RowOf(store, r.parent_id).menu = r.menu

WellFormed(store) == Acyclic(store) /\ SameMenuParents(store)

SeedStores == {s \in TreeStores : WellFormed(s) /\ \A r \in s : r.order = 0}

InitAdmin ==
    /\ db \in SeedStores
    /\ writes = 0
    /\ pc = "idle"
    /\ NoCall

NextAdmin ==
    \/ \E slug \in MenuSlugs, req_path \in Paths : DrawMenu(slug, req_path)
    \/ Prepare
    \/ WalkStep
    \/ WalkReturn
    \/ Render
    \/ Return
    \/ \E i \in ItemIds, p \in {None} \cup ItemIds, o \in OrderValues : AdminSave(i, p, o)
    \/ \E i \in ItemIds : AdminDelete(i)

SpecAdmin == InitAdmin /\ [][NextAdmin]_vars

\* ------------------------------------------------- reading the markup back
\* Scan walks the tokens once, keeping the open lists (their token index),
\* the open entries (their item) and the number of open hidden containers.
\* A list is [at, level, owner, wrapped, hidden]: owner is the item of the
\* entry the list is nested in (None for the root list), wrapped says the
\* list is the content of a hidden container, hidden that some hidden
\* container is open around it.  An entry is [item, href, active, list, at,
\* hidden].
RECURSIVE Scan(_, _, _, _, _, _)
Scan(h, i, uls, lis, divs, acc) ==
    IF i > Len(h) THEN acc
    ELSE LET t == h[i] IN
      CASE t.tag = "ul" ->
             Scan(h, i + 1, <<i>> \o uls, lis, divs,
                  [acc EXCEPT !.lists = @ \cup
                     {[at |-> i, level |-> t.level,
                       owner |-> IF lis = <<>> THEN None ELSE Head(lis),
                       wrapped |-> i > 1 /\ h[i - 1].tag = "div",
                       hidden |-> divs > 0]}])
        [] t.tag = "/ul" -> Scan(h, i + 1, Tail(uls), lis, divs, acc)
        [] t.tag = "li" -> Scan(h, i + 1, uls, <<h[i + 1].text>> \o lis, divs, acc)
        [] t.tag = "/li" -> Scan(h, i + 1, uls, Tail(lis), divs, acc)
        [] t.tag = "a" ->
             Scan(h, i + 1, uls, lis, divs,
                  [acc EXCEPT !.entries = @ \cup
                     {[item |-> t.text, href |-> t.href,
                       active |-> h[i - 1].class = "active",
                       list |-> Head(uls), at |-> i, hidden |-> divs > 0]}])
        [] t.tag = "div" -> Scan(h, i + 1, uls, lis, divs + 1, acc)
        [] t.tag = "/div" -> Scan(h, i + 1, uls, lis, divs - 1, acc)

Parse(h) == Scan(h, 1, <<>>, <<>>, 0, [lists |-> {}, entries |-> {}])
Lists(h) == Parse(h).lists
Entries(h) == Parse(h).entries

\* the fetched instance with a given id
FetchedIds == {menu_items[k].id : k \in 1..Len(menu_items)}
FetchedItem(i) == menu_items[CHOOSE k \in 1..Len(menu_items) : menu_items[k].id = i]

\* the rows of the snapshot, without the relation cache
SnapshotRows ==
    {Row(x.id, x.menu, x.parent_id, x.url, x.named_url, x.order) :
        x \in {menu_items[k] : k \in 1..Len(menu_items)}}

Rendered == pc = "done" /\ menu_items # <<>>

\* ------------------------------------------------------------------ claims
\* the positions of the fetched sequence whose resolved URL is the request path
Matches == {k \in 1..Len(menu_items) : get_url(menu_items[k]) = current_path}
Found == pc \in {"walk", "render", "done", "raised"} /\ menu_items # <<>>

\* C1: one draw_menu call makes exactly one round trip to the database,
\* whatever the menu and wherever the active item is: after the query of
\* the call no step of it queries again.
C1_OneRoundTrip == pc # "idle" => queries = 1

\* C2: in the output for a well-formed forest the root list is visible, and
\* the child list of an item is outside a hidden container exactly when the
\* item is the active item or one of its ancestors; the child lists of the
\* active item's children are hidden like every other.
C2_OnlyActiveBranchVisible ==
    (Rendered /\ WellFormed(db)) =>
        \A l \in Lists(html) :
            IF l.owner = None THEN ~l.wrapped
            ELSE ~l.wrapped <=>
                   (active_item # NULL /\ l.owner \in AncestorsOrSelf(db, active_item.id))

C4_RepeatedIdEndsWalk ==
    [][(pc = "walk" /\ current # NULL /\ current.id \in path) => pc' # "walk"]_vars

\* the parent chain of a fetched item ends at a root inside the fetched set
ReachesRoot(i) ==
    LET A == AncestorsOrSelf(SnapshotRows, i)
    IN  A \subseteq FetchedIds /\ \E a \in A : FetchedItem(a).parent_id = None

\* C5: when no fetched item resolves to the request path (the empty path of
\* an absent request included) the whole menu is still rendered: no active
\* item, an empty ancestor set, no entry marked active, the root list
\* visible, every nested list inside a hidden container, and an entry for
\* every item whose parent chain reaches a root.
C5_NoActiveAllHidden ==
    (Rendered /\ Matches = {}) =>
        /\ active_item = NULL
        /\ active_path = {}
        /\ \A e \in Entries(html) : ~e.active
        /\ \A l \in Lists(html) :
              IF l.owner = None THEN ~l.wrapped /\ ~l.hidden ELSE l.wrapped
        /\ \A i \in FetchedIds : ReachesRoot(i) =>
              \E e \in Entries(html), l \in Lists(html) :
                  e.item = i /\ e.list = l.at /\ l.owner = FetchedItem(i).parent_id

C5_Witness ==
    /\ Rendered /\ Matches = {} /\ current_path = ""
    /\ \E l \in Lists(html) : l.level = 2 /\ l.wrapped

\* the output the functions of the tag give on the fetched sequence alone,
\* the ancestor set read from the parent_id columns of the snapshot
SnapshotActive == find_active_item(menu_items, current_path)
SnapshotPath ==
    IF SnapshotActive = NULL THEN {}
    ELSE AncestorsOrSelf(SnapshotRows, SnapshotActive.id)
SnapshotOutput ==
    render_menu_level(build_menu_tree(menu_items), None, SnapshotActive, SnapshotPath, 0)

\* C6: the output of a render is the output computed from the snapshot of
\* its one fetch alone, whatever is written to the store before it returns,
\* and the render returns.
C6_SnapshotOnly ==
    (pc \in {"done", "raised"} /\ menu_items # <<>>) =>
        (pc = "done" /\ html = SnapshotOutput)

\* C7: find_active_item returns the first item of the fetched sequence whose
\* resolved URL equals the request path, None when there is none, and None
\* for the empty path.
C7_FirstMatch ==
    Found =>
        /\ Matches = {} => active_item = NULL
        /\ Matches # {} =>
              \E k \in Matches : (\A j \in Matches : k <= j) /\ active_item = menu_items[k]
        /\ current_path = "" => active_item = NULL

C7_Witness ==
    /\ Found
    /\ Cardinality(Matches) >= 2
    /\ \E j \in Matches : menu_items[j].id < active_item.id

\* C8: get_active_path returns exactly the ids from the item up to its root,
\* both ends included, and the ancestor set is empty without an item.
C8_ExactChain ==
    (pc \in {"render", "done"} /\ menu_items # <<>>) =>
        IF active_item = NULL THEN active_path = {}
        ELSE active_path = AncestorsOrSelf(db, active_item.id)

C8_Witness ==
    /\ pc = "done" /\ active_item # NULL
    /\ Cardinality(active_path) >= 2
    /\ \E i \in FetchedIds \ active_path :
          FetchedItem(i).parent_id = active_item.parent_id

\* C9: the link of every entry is the reversed named_url when that is set
\* and resolves, otherwise the url when that is set, otherwise "#"; it is
\* never empty and never a resolution failure.
C9_ResolvedUrl ==
    Rendered =>
        \A e \in Entries(html) :
            LET x == FetchedItem(e.item)
                named == x.named_url # "" /\ x.named_url \in RouteNames
            IN  /\ e.href # "" /\ e.href # NoReverseMatch
                /\ named => e.href = RoutePath(x.named_url)
                /\ (~named /\ x.url # "") => e.href = x.url
                /\ (~named /\ x.url = "") => e.href = "#"

C9_Witness ==
    /\ Rendered
    /\ \E e \in Entries(html) :
          LET x == FetchedItem(e.item)
          IN  x.named_url \in RouteNames /\ x.url # "" /\ e.href = "/"
    /\ \E e \in Entries(html) :
          LET x == FetchedItem(e.item)
          IN  x.named_url \notin RouteNames \cup {""} /\ x.url # "" /\ e.href = x.url
    /\ \E e \in Entries(html) :
          LET x == FetchedItem(e.item)
          IN  x.named_url \notin RouteNames \cup {""} /\ x.url = "" /\ e.href = "#"

\* C10: inside every emitted list the entries are in ascending (order, id)
\* sequence.
C10_SiblingOrder ==
    Rendered =>
        \A e1, e2 \in Entries(html) :
            (e1.list = e2.list /\ e1.at < e2.at) =>
                LET a == FetchedItem(e1.item)
                    b == FetchedItem(e2.item)
                IN  a.order < b.order \/ (a.order = b.order /\ a.id < b.id)

C10_Witness ==
    /\ Rendered
    /\ \E e1, e2 \in Entries(html) :
          e1.list = e2.list /\ e1.at < e2.at /\ e1.item > e2.item
    /\ \E e1, e2 \in Entries(html) :
          /\ e1.list = e2.list /\ e1.at < e2.at
          /\ FetchedItem(e1.item).order = FetchedItem(e2.item).order

\* C11: a fetched item whose parent_id is the id of no fetched item (a
\* parent of another menu) is emitted as an entry of the root list.
C11_ForeignParentIsRoot ==
    Rendered =>
        \A i \in FetchedIds :
            LET p == FetchedItem(i).parent_id
            IN  (p # None /\ p \notin FetchedIds) =>
                  \E e \in Entries(html), l \in Lists(html) :
                      e.item = i /\ e.list = l.at /\ l.owner = None

\* C12: when the query for the slug yields no items draw_menu returns the
\* empty string at once: no tree index, no active item, no ancestor walk and
\* no markup are ever made for an empty result, and nothing is raised.
C12_EmptyMenuReturnsAtOnce ==
    (pc # "idle" /\ menu_items = <<>>) =>
        /\ pc = "done"
        /\ html = <<>>
        /\ menu_dict = EmptyDict /\ active_item = NULL
        /\ path = {} /\ current = NULL /\ active_path = {}

C12_Witness ==
    /\ pc = "done" /\ menu_items = <<>> /\ html = <<>>
    /\ menu_slug = "footer_menu" /\ db # {}

\* C13: a render is read-only and leaves nothing behind: no step of a
\* draw_menu call changes a row of the store, the fetched items keep their
\* field values from the fetch to the return, and when the call is over
\* every local of it (fetched list, tree index, active item, ancestor set,
\* markup) is gone.
C13_ReadOnlyRender ==
    [][/\ db' = db
       /\ (pc # "idle" /\ pc' # "idle") => menu_items' = menu_items
       /\ pc' = "idle" => NoCall']_vars

C13_Witness ==
    /\ pc = "done" /\ html # <<>> /\ active_item # NULL
    /\ SnapshotRows = {r \in db : r.menu = menu_slug}

\* the number of items in all buckets of a tree index
RECURSIVE BucketTotal(_, _)
BucketTotal(dict, keys) ==
    IF keys = {} THEN 0
    ELSE LET key == CHOOSE x \in keys : TRUE
         IN  Len(dict[key]) + BucketTotal(dict, keys \ {key})

\* C14: build_menu_tree partitions the fetched sequence: the bucket of a key
\* is exactly the items with that parent_id, in their order in the input
\* (None, which is no item's id, for the items without a parent); so every
\* item is in one bucket only, no bucket is empty, and the bucket sizes add
\* up to the number of items.
C14_TreeIsPartition ==
    Found =>
        /\ None \notin FetchedIds
        /\ DOMAIN menu_dict = {menu_items[k].parent_id : k \in 1..Len(menu_items)}
        /\ \A key \in DOMAIN menu_dict :
              LET HasKey(x) == x.parent_id = key
              IN  /\ menu_dict[key] # <<>>
                  /\ menu_dict[key] = SelectSeq(menu_items, HasKey)
        /\ \A k \in 1..Len(menu_items) :
              Cardinality({<<key, n>> \in
                  UNION {{key} \X (1..Len(menu_dict[key])) : key \in DOMAIN menu_dict} :
                      menu_dict[key][n] = menu_items[k]}) = 1
        /\ BucketTotal(menu_dict, DOMAIN menu_dict) = Len(menu_items)

C14_Witness ==
    /\ Found
    /\ Cardinality(DOMAIN menu_dict) >= 2
    /\ \E key \in DOMAIN menu_dict :
          Len(menu_dict[key]) = 2 /\ menu_dict[key][1].id > menu_dict[key][2].id

\* C15: in a well-formed forest, when some item resolves to the request
\* path, exactly one entry of the output carries the active mark, it is the
\* entry of the first such item, and no hidden container is open around it.
C15_ActiveEntryVisible ==
    (Rendered /\ WellFormed(db) /\ Matches # {}) =>
        LET marked == {e \in Entries(html) : e.active}
            first  == CHOOSE k \in Matches : \A j \in Matches : k <= j
        IN  /\ Cardinality(marked) = 1
            /\ \A e \in marked : e.item = menu_items[first].id /\ ~e.hidden

C15_Witness ==
    /\ Rendered /\ WellFormed(db) /\ Cardinality(Matches) >= 2
    /\ \E e \in Entries(html), l \in Lists(html) :
          e.active /\ ~e.hidden /\ e.list = l.at /\ l.level >= 1


\* the fetched item lies on a cycle of parent references
OnCycle(i) ==
    LET p == FetchedItem(i).parent_id
    IN  p # None /\ i \in AncestorsOrSelf(SnapshotRows, p)

\* C16: rendering from the root key ends whatever the parent references
\* are, cycles included; the output has at most one entry per fetched item
\* and at most one list per owner, the items with an entry are those whose
\* parent chain reaches a root, so no item on a cycle has one, the root
\* list is labelled level 0 and the child list of an item at depth d is
\* labelled level d + 1.
C16_RenderTerminates ==
    /\ pc = "render" => ENABLED Render
    /\ Rendered =>
          /\ \A i \in FetchedIds :
                /\ Cardinality({e \in Entries(html) : e.item = i}) <= 1
                /\ Cardinality({l \in Lists(html) : l.owner = i}) <= 1
                /\ (\E e \in Entries(html) : e.item = i) <=> ReachesRoot(i)
                /\ OnCycle(i) => \A e \in Entries(html) : e.item # i
          /\ \A e \in Entries(html) : e.item \in FetchedIds
          /\ \A l \in Lists(html) :
                IF l.owner = None THEN l.level = 0
                ELSE l.level = Cardinality(AncestorsOrSelf(SnapshotRows, l.owner))

C16_Witness ==
    /\ Rendered
    /\ \E i \in FetchedIds : OnCycle(i)
    /\ \E l \in Lists(html) : l.level = 1

====
